---- MODULE Spec2Model ----
(***************************************************************************)
(* Model of tube_route_planner.py: ImportCSV.routes builds the adjacency   *)
(* structure row by row, graph_dijkstra searches it with a priority queue  *)
(* and a line-transfer penalty and walks the predecessor map back from the *)
(* target, and directions groups the returned path into per-line segments. *)
(*                                                                         *)
(* Costs are integers: one unit of dist_km is Scale cost units, so the     *)
(* penalty factor 1.33 is the ratio PenaltyScaled / Scale.                 *)
(*                                                                         *)
(* A dict is a function on its keys. The for loop over routes[node] visits *)
(* the neighbors in the insertion order of the dict, which depends on the  *)
(* order of the rows; the model lets it visit them in any order. The       *)
(* priority queue is the set of its entries: the cost of a station         *)
(* strictly decreases with every put, so no entry is put twice             *)
(* (PutsAreNew).                                                           *)
(***************************************************************************)
EXTENDS Integers, Sequences, FiniteSets, TLC

\* The number of rows of routes.csv (a row may repeat an earlier one).
MaxRows == 4

\* The longest path, in stops, handed to directions on its own.
MaxPathLen == 5

\* penalty = 1.33, as the ratio PenaltyScaled / Scale.
Scale == 100
PenaltyScaled == 133

\* Python's None (prev[v] of a station without predecessor, an unset local).
None == -1
\* math.inf (station ids and costs are >= 0).
inf == -2

\* The station table (stations.csv): id -> coordinates. All stations lie on
\* one meridian, one unit of latitude being one unit of distance; stations 1
\* and 2 share their coordinates, and one station has the identifier 0.
stations ==
  (0 :> [lat |-> 0, lon |-> 0]) @@ (1 :> [lat |-> 1, lon |-> 0]) @@
  (2 :> [lat |-> 1, lon |-> 0]) @@ (3 :> [lat |-> 2, lon |-> 0])

\* The line ids a row of routes.csv can carry (lines.csv).
lines == {1, 2}

VARIABLES
  pc,          \* position of the program
  reader,      \* rows of routes.csv not yet read
  routes,      \* adjacency: station -> (neighbor -> line id)
  start, end,  \* arguments of graph_dijkstra
  dist, prev,  \* graph_dijkstra: cost and predecessor of every key of g
  pq,          \* graph_dijkstra: the priority queue, entries <<cost, station>>
  length, node,                \* the dequeued entry
  todo,                        \* neighbors of node the for loop has yet to visit
  neighbor, prev_n, new_dist,  \* locals of the current relaxation
  path,                        \* graph_dijkstra: the path under reconstruction
  transfer_number, line_id, i, \* directions: locals
  transfers                    \* directions: the segments, in insertion order

vars == <<pc, reader, routes, start, end, dist, prev, pq, length, node, todo,
          neighbor, prev_n, new_dist, path, transfer_number, line_id, i, transfers>>

----------------------------------------------------------------------------
\* Helpers

Abs(x) == IF x < 0 THEN -x ELSE x

\* d[k] = v on a Python dict d: k keeps its place if present, is added if not.
DictSet(d, k, v) == [x \in (DOMAIN d) \cup {k} |-> IF x = k THEN v ELSE d[x]]

\* results[a][b] = v on a defaultdict(dict).
DDictSet(results, a, b, v) ==
  DictSet(results, a, DictSet(IF a \in DOMAIN results THEN results[a] ELSE << >>, b, v))

\* routes_row without the reverse entry.
routes_row_oneway(results, s1, s2, line) == DDictSet(results, s1, s2, line)

\* One row of routes.csv: results[s1][s2] = line; results[s2][s1] = line.
routes_row(results, s1, s2, line) ==
  DDictSet(DDictSet(results, s1, s2, line), s2, s1, line)

\* dist_km for two stations on one meridian: x = 0 and d is |lat2 - lat1|
\* (in units of 6371 * radians(1 unit of latitude)).
dist_km(lat1, lon1, lat2, lon2) ==
  LET y == lat2 - lat1
  IN  Abs(y)

\* Python truthiness of prev.get(node, None): None and 0 are both false.
Truthy(x) == x # None /\ x # 0

\* IsTransfer with the comparison of the line ids inverted.
IsTransfer_sameline(g, p, n, nb) == Truthy(p) /\ g[p][n] = g[n][nb]

\* The transfer test of the relaxation.
IsTransfer(g, p, n, nb) == Truthy(p) /\ g[p][n] # g[n][nb]

\* new_dist of a relaxation.
NewDist(g, len, p, n, nb, d_km) ==
  IF IsTransfer(g, p, n, nb) THEN len + d_km * PenaltyScaled ELSE len + d_km * Scale

\* IsNewMinimum accepting an equal cost.
IsNewMinimum_orequal(nd, old) == old = inf \/ nd <= old

\* IsNewMinimum accepting every cost that differs from the recorded one.
IsNewMinimum_differs(nd, old) == nd # old

\* new_dist < dist[neighbor], dist[neighbor] possibly inf.
IsNewMinimum(nd, old) == old = inf \/ nd < old

\* if new_dist < dist[neighbor]: dist[neighbor] = new_dist; prev[neighbor] = node;
\* pq.put((new_dist, neighbor)). The values of dist, prev and pq afterwards.
RelaxUpdate(d, pv, q, n, nb, nd) ==
  IF IsNewMinimum(nd, d[nb])
    THEN [dist |-> [d EXCEPT ![nb] = nd], prev |-> [pv EXCEPT ![nb] = n],
          pq |-> q \cup {<<nd, nb>>}]
    ELSE [dist |-> d, prev |-> pv, pq |-> q]

\* Tuple order of the queue entries (cost, station).
EntryLess(e, f) == e[1] < f[1] \/ (e[1] = f[1] /\ e[2] < f[2])

\* pq.get(): the least entry.
PqGet(q) == CHOOSE e \in q : \A f \in q : f = e \/ EntryLess(e, f)

\* Reversed leaving the list as it is.
Reversed_not(s) == s

RECURSIVE Reversed(_)
Reversed(s) == IF s = << >> THEN << >> ELSE Append(Reversed(Tail(s)), Head(s))

\* s without its last element (list.pop()).
Pop(s) == SubSeq(s, 1, Len(s) - 1)

----------------------------------------------------------------------------
Init ==
  /\ pc = "load"
  /\ reader = MaxRows
  /\ routes = << >>
  /\ start = None /\ end = None
  /\ dist = << >> /\ prev = << >> /\ pq = {}
  /\ length = None /\ node = None /\ todo = {}
  /\ neighbor = None /\ prev_n = None /\ new_dist = None
  /\ path = << >>
  /\ transfer_number = 0 /\ line_id = None /\ i = 0 /\ transfers = << >>

\* ImportCSV.routes: one iteration of the loop over the rows.
RoutesRow ==
  /\ pc = "load" /\ reader > 0
  /\ \E s1 \in DOMAIN stations, s2 \in DOMAIN stations, line \in lines :
       /\ s1 # s2
       /\ routes' = routes_row(routes, s1, s2, line)
  /\ reader' = reader - 1
  /\ UNCHANGED <<pc, start, end, dist, prev, pq, length, node, todo, neighbor,
                 prev_n, new_dist, path, transfer_number, line_id, i, transfers>>

\* ImportCSV.routes returns at the end of the file; graph_dijkstra is called
\* with two keys of the graph and initialises dist, prev and pq. (main calls
\* it with start # end; the function itself takes any two.)
DijkstraCall ==
  /\ pc = "load" /\ reader = 0
  /\ \E s \in DOMAIN routes, e \in DOMAIN routes :
       /\ start' = s /\ end' = e
       /\ dist' = [v \in DOMAIN routes |-> IF v = s THEN 0 ELSE inf]
       /\ prev' = [v \in DOMAIN routes |-> None]
       /\ pq' = {<<0, s>>}
  /\ pc' = "search"
  /\ UNCHANGED <<reader, routes, length, node, todo, neighbor, prev_n, new_dist,
                 path, transfer_number, line_id, i, transfers>>

\* length, node = pq.get(), and the for loop over routes[node] begins. The
\* locals of the previous relaxation are dead here (each is assigned before
\* it is read again) and are set back to None.
Dequeue ==
  /\ pc = "search" /\ pq # {}
  /\ LET e == PqGet(pq)
     IN  /\ length' = e[1] /\ node' = e[2]
         /\ pq' = pq \ {e}
         /\ todo' = DOMAIN routes[e[2]]
         /\ pc' = IF DOMAIN routes[e[2]] = {} THEN "search" ELSE "relax"
  /\ neighbor' = None /\ prev_n' = None /\ new_dist' = None
  /\ UNCHANGED <<reader, routes, start, end, dist, prev, path,
                 transfer_number, line_id, i, transfers>>

\* One iteration of the for loop: the relaxation of one neighbor.
Relax ==
  /\ pc = "relax"
  /\ \E nb \in todo :
       LET d_km == dist_km(stations[node].lat, stations[node].lon,
                           stations[nb].lat, stations[nb].lon)
           p    == IF node \in DOMAIN prev THEN prev[node] ELSE None
           nd   == NewDist(routes, length, p, node, nb, d_km)
       IN  /\ neighbor' = nb /\ prev_n' = p /\ new_dist' = nd
           /\ LET u == RelaxUpdate(dist, prev, pq, node, nb, nd)
              IN  dist' = u.dist /\ prev' = u.prev /\ pq' = u.pq
           /\ todo' = todo \ {nb}
           /\ pc' = IF todo = {nb} THEN "search" ELSE "relax"
  /\ UNCHANGED <<reader, routes, start, end, length, node, path,
                 transfer_number, line_id, i, transfers>>

\* The queue is empty: path = [end].
SearchEnd ==
  /\ pc = "search" /\ pq = {}
  /\ path' = <<end>>
  /\ pc' = "walk"
  /\ UNCHANGED <<reader, routes, start, end, dist, prev, pq, length, node, todo,
                 neighbor, prev_n, new_dist, transfer_number, line_id, i, transfers>>

\* while path[-1] in prev: path.append(prev[path[-1]])
WalkStep ==
  /\ pc = "walk" /\ path[Len(path)] \in DOMAIN prev
  /\ path' = Append(path, prev[path[Len(path)]])
  /\ UNCHANGED <<pc, reader, routes, start, end, dist, prev, pq, length, node, todo,
                 neighbor, prev_n, new_dist, transfer_number, line_id, i, transfers>>

\* path.pop(); return dist, list(reversed(path))
DijkstraReturn ==
  /\ pc = "walk" /\ path[Len(path)] \notin DOMAIN prev
  /\ path' = Reversed(Pop(path))
  /\ pc' = "returned"
  /\ UNCHANGED <<reader, routes, start, end, dist, prev, pq, length, node, todo,
                 neighbor, prev_n, new_dist, transfer_number, line_id, i, transfers>>

\* main calls directions(routes, path): line_id = routes[path[0]][path[1]]
\* raises IndexError on a path of fewer than two stops.
DirectionsCall ==
  /\ pc = "returned"
  /\ IF Len(path) < 2
       THEN /\ pc' = "raised"
            /\ UNCHANGED <<transfer_number, line_id, i, transfers>>
       ELSE /\ transfer_number' = 0
            /\ line_id' = routes[path[1]][path[2]]
            /\ i' = 0
            /\ transfers' = << >>
            /\ pc' = "directions"
  /\ UNCHANGED <<reader, routes, start, end, dist, prev, pq, length, node, todo,
                 neighbor, prev_n, new_dist, path>>

\* directions[transfer].append(stop) on a defaultdict(list) held as the
\* sequence of its items in insertion order.
DirectionsAppend(d, transfer, stop) ==
  IF \E j \in 1..Len(d) : d[j].key = transfer
    THEN [j \in 1..Len(d) |->
            IF d[j].key = transfer
              THEN [d[j] EXCEPT !.stops = Append(d[j].stops, stop)]
              ELSE d[j]]
    ELSE Append(d, [key |-> transfer, stops |-> <<stop>>])

\* NextTransferNumber without the increment.
NextTransferNumber_same(n) == n

\* transfer_number after an edge whose line differs from line_id.
NextTransferNumber(n) == n + 1

\* One iteration of the loop of directions (i is Python's i, from 0).
DirectionsStep ==
  /\ pc = "directions" /\ i < Len(path) - 1
  /\ LET current_stop == path[i + 1]
         next_stop    == path[i + 2]
         next_line    == routes[current_stop][next_stop]
     IN  IF next_line = line_id
           THEN /\ transfers' = DirectionsAppend(transfers, <<transfer_number, line_id>>, next_stop)
                /\ UNCHANGED <<transfer_number, line_id>>
           ELSE /\ transfer_number' = NextTransferNumber(transfer_number)
                /\ line_id' = next_line
                /\ transfers' = DirectionsAppend(transfers,
                                   <<NextTransferNumber(transfer_number), next_line>>, next_stop)
  /\ i' = i + 1
  /\ UNCHANGED <<pc, reader, routes, start, end, dist, prev, pq, length, node, todo,
                 neighbor, prev_n, new_dist, path>>

\* return dict(directions)
DirectionsReturn ==
  /\ pc = "directions" /\ i = Len(path) - 1
  /\ pc' = "done"
  /\ UNCHANGED <<reader, routes, start, end, dist, prev, pq, length, node, todo,
                 neighbor, prev_n, new_dist, path, transfer_number, line_id, i, transfers>>

Next ==
  \/ RoutesRow
  \/ DijkstraCall
  \/ Dequeue
  \/ Relax
  \/ SearchEnd
  \/ WalkStep
  \/ DijkstraReturn
  \/ DirectionsCall
  \/ DirectionsStep
  \/ DirectionsReturn

Spec == Init /\ [][Next]_vars

\* The search and the walk are loops of one sequential program: it takes its
\* next step whenever it has one.
FairSpec == Spec /\ WF_vars(Next)

----------------------------------------------------------------------------
\* directions as a function of its own: any adjacency structure that gives
\* every pair of stations a line, and any path of 2..MaxPathLen stops.

Pairs == {{a, b} : a \in DOMAIN stations, b \in DOMAIN stations} \ {{a} : a \in DOMAIN stations}

DirectionsGraphs ==
  { [a \in DOMAIN stations |-> [b \in (DOMAIN stations) \ {a} |-> L[{a, b}]]] :
      L \in [Pairs -> lines] }

DirectionsPaths ==
  { p \in UNION { [1..n -> DOMAIN stations] : n \in 2..MaxPathLen } :
      \A k \in 1..(Len(p) - 1) : p[k] # p[k + 1] }

DirectionsInit ==
  /\ pc = "returned"
  /\ reader = 0
  /\ routes \in DirectionsGraphs
  /\ path \in DirectionsPaths
  /\ start = None /\ end = None
  /\ dist = << >> /\ prev = << >> /\ pq = {}
  /\ length = None /\ node = None /\ todo = {}
  /\ neighbor = None /\ prev_n = None /\ new_dist = None
  /\ transfer_number = 0 /\ line_id = None /\ i = 0 /\ transfers = << >>

DirectionsNext == DirectionsCall \/ DirectionsStep \/ DirectionsReturn

DirectionsSpec == DirectionsInit /\ [][DirectionsNext]_vars

----------------------------------------------------------------------------
\* Vocabulary of the properties

\* Every relaxation that records a cost puts an entry the queue does not hold.
PutsAreNew == [][(pc = "relax" /\ dist' # dist) => pq' # pq]_vars

\* The distance of the edge (a, b).
EdgeKm(a, b) == dist_km(stations[a].lat, stations[a].lon, stations[b].lat, stations[b].lon)

\* The cost of walking p: every edge's distance, times the penalty factor when
\* its line differs from the line of the edge before it on p.
RECURSIVE WalkCost(_, _)
WalkCost(p, k) ==
  IF k >= Len(p) THEN 0
  ELSE EdgeKm(p[k], p[k + 1])
         * (IF k > 1 /\ routes[p[k - 1]][p[k]] # routes[p[k]][p[k + 1]]
              THEN PenaltyScaled ELSE Scale)
       + WalkCost(p, k + 1)

PathCost(p) == WalkCost(p, 1)

\* The sum of the unmodified distances along p.
RECURSIVE PlainCost(_)
PlainCost(p) ==
  IF Len(p) < 2 THEN 0 ELSE EdgeKm(p[1], p[2]) * Scale + PlainCost(Tail(p))

Range(p) == {p[k] : k \in 1..Len(p)}

\* Every path without a repeated station that extends p to e.
RECURSIVE PathsFrom(_, _)
PathsFrom(p, e) ==
  IF p[Len(p)] = e THEN {p}
  ELSE UNION { PathsFrom(Append(p, nb), e) : nb \in (DOMAIN routes[p[Len(p)]]) \ Range(p) }

\* graph_dijkstra has returned.
Returned == pc \in {"returned", "raised", "directions", "done"} /\ start # None

\* A relaxation of the current dequeue has been computed.
Relaxed == pc \in {"relax", "search"} /\ neighbor # None

\* Every edge of the graph carries the same line id.
SingleLine ==
  \A a \in DOMAIN routes, c \in DOMAIN routes :
    \A b \in DOMAIN routes[a], d \in DOMAIN routes[c] : routes[a][b] = routes[c][d]

\* The station k predecessor links above v (or the root, if reached before).
RECURSIVE Ancestor(_, _)
Ancestor(v, k) == IF k = 0 \/ prev[v] = None THEN v ELSE Ancestor(prev[v], k - 1)

----------------------------------------------------------------------------
\* C1: for start # end with end reachable, the returned path is a cheapest
\* route: no start-to-end path of the graph costs strictly less, a path's cost
\* being its edge distances, each times 1.33 exactly when its line differs
\* from the line of the edge before it.
C1_CheapestRoute ==
  (Returned /\ start # end /\ PathsFrom(<<start>>, end) # {})
    => \A q \in PathsFrom(<<start>>, end) : PathCost(q) >= PathCost(path)

\* C2: an unreachable target is reported as an explicit "no route" outcome:
\* never as the path [end], and the following directions call does not raise.
C2_NoRouteOutcome ==
  (Returned /\ start # end /\ prev[end] = None)
    => (path # <<end>> /\ pc # "raised")

\* C3: the cost recorded for a reachable end is the cost of the returned path,
\* recomputed edge by edge with the transfer rule.
C3_DistIsPathCost ==
  (Returned /\ dist[end] # inf) => dist[end] = PathCost(path)

\* C4: the candidate cost of a relaxation is the dequeued cost plus 1.33 times
\* the edge distance if the node has a recorded predecessor P and the lines of
\* (P, node) and (node, neighbor) differ, and plus the plain distance otherwise.
C4_PenaltyRule ==
  Relaxed =>
    new_dist = length + EdgeKm(node, neighbor)
                 * (IF prev[node] # None /\ routes[prev[node]][node] # routes[node][neighbor]
                      THEN PenaltyScaled ELSE Scale)

\* The line of the k-th edge of the path handed to directions.
EdgeLine(k) == routes[path[k]][path[k + 1]]

\* The stop lists of the segments d, concatenated in output order.
RECURSIVE Flatten(_)
Flatten(d) == IF d = << >> THEN << >> ELSE Head(d).stops \o Flatten(Tail(d))

\* The number of stops in the segments before segment j.
RECURSIVE Offset(_, _)
Offset(d, j) == IF j <= 1 THEN 0 ELSE Offset(d, j - 1) + Len(d[j - 1].stops)

\* C5: directions returns segments keyed (0, l0), (1, l1), ... in insertion
\* order, l0 the line of the first edge; a new segment starts exactly at each
\* edge whose line differs from the line of the edge before it; every segment
\* lists the destination stops of its edges in path order; the concatenation
\* of the stop lists is the path without its first stop.
C5_Segments ==
  pc = "done" =>
    /\ Len(transfers) >= 1
    /\ \A j \in 1..Len(transfers) :
         /\ transfers[j].key[1] = j - 1
         /\ Len(transfers[j].stops) >= 1
         /\ \A m \in 1..Len(transfers[j].stops) :
              /\ transfers[j].stops[m] = path[Offset(transfers, j) + m + 1]
              /\ transfers[j].key[2] = EdgeLine(Offset(transfers, j) + m)
         /\ j > 1 => transfers[j].key[2] # transfers[j - 1].key[2]
    /\ transfers[1].key[2] = EdgeLine(1)
    /\ Flatten(transfers) = Tail(path)

\* A path that comes back to a line it has left: three segments, the first
\* and the third on the same line.
C5_Witness ==
  /\ pc = "done"
  /\ Len(transfers) >= 3
  /\ transfers[1].key[2] = transfers[3].key[2]
  /\ Len(transfers[2].stops) >= 2

\* C6: on a graph whose edges all carry one line id no relaxation applies the
\* penalty factor, and the cost recorded for a reachable end is the sum of the
\* unmodified distances along the returned path.
C6_SingleLine ==
  SingleLine =>
    /\ Relaxed => new_dist = length + EdgeKm(node, neighbor) * Scale
    /\ (Returned /\ dist[end] # inf) => dist[end] = PlainCost(path)

\* A single-line graph and a returned path of three edges.
C6_Witness ==
  SingleLine /\ Returned /\ pc = "returned" /\ Len(path) = 4 /\ dist[end] = PlainCost(path)

\* C7: after every row the adjacency structure is symmetric: a -> b exists if
\* and only if b -> a exists, and both hold the same line id.
C7_Symmetric ==
  \A a \in DOMAIN routes : \A b \in DOMAIN routes[a] :
    b \in DOMAIN routes /\ a \in DOMAIN routes[b] /\ routes[b][a] = routes[a][b]

\* The file is read, some row repeated the station pair of an earlier row, and
\* the graph holds edges of both lines.
C7_Witness ==
  /\ pc = "load" /\ reader = 0
  /\ Cardinality({e \in Pairs : \E a \in e : a \in DOMAIN routes /\ e \ {a} \subseteq DOMAIN routes[a]}) < MaxRows
  /\ ~SingleLine

\* C8: processing a dequeued entry whose cost is strictly greater than the
\* cost recorded for its station changes no recorded cost, changes no
\* predecessor and enqueues nothing.
C8_StaleEntry ==
  [][(pc = "relax" /\ length > dist[node]) => (dist' = dist /\ prev' = prev /\ pq' = pq)]_vars

\* The for loop is about to relax a neighbor of a stale entry's station.
C8_Witness == pc = "relax" /\ length > dist[node] /\ todo # {}

\* C9: graph_dijkstra returns: the search loop reaches an empty queue and the
\* backward walk reaches a station without predecessor.
C9_Terminates == (pc = "search") ~> (pc = "returned")

\* graph_dijkstra has returned from a graph with a cycle through the
\* zero-distance edge between stations 1 and 2.
C9_Witness ==
  /\ pc = "returned"
  /\ 1 \in DOMAIN routes /\ 2 \in DOMAIN routes[1]
  /\ start \in DOMAIN routes[1] /\ start \in DOMAIN routes[2]
  /\ Len(path) >= 2

\* C10: throughout the search the source keeps cost 0 and no predecessor, and
\* the predecessors of the stations with a finite cost form a tree rooted at
\* the source whose links are edges of the graph; the path returned for a
\* reachable target begins with the source, ends with the target, joins only
\* adjacent stations and contains no station twice.
C10_PredecessorTree ==
  (pc \in {"search", "relax", "walk"} \/ Returned) =>
    /\ dist[start] = 0 /\ prev[start] = None
    /\ \A v \in (DOMAIN dist) \ {start} :
         IF dist[v] = inf THEN prev[v] = None
         ELSE /\ prev[v] \in DOMAIN routes
              /\ v \in DOMAIN routes[prev[v]]
              /\ dist[prev[v]] # inf
              /\ Ancestor(v, Cardinality(DOMAIN prev)) = start
    /\ (Returned /\ dist[end] # inf) =>
         /\ path[1] = start /\ path[Len(path)] = end
         /\ \A k \in 1..(Len(path) - 1) : path[k + 1] \in DOMAIN routes[path[k]]
         /\ Cardinality(Range(path)) = Len(path)

\* A path of three edges has been returned.
C10_Witness == Returned /\ pc = "returned" /\ dist[end] # inf /\ Len(path) = 4

====
